---- MODULE Spec2Model ----
(***************************************************************************)
(* Model of the VectorCade browser shell (src/vectorcade-web-yew/src/      *)
(* main.rs): the keyboard edge tracker WebInput, the fixed-timestep clock  *)
(* of GameState::tick, game selection / reset, and render_to_canvas with   *)
(* its CRT glow and vector text layout.                                    *)
(*                                                                         *)
(* The shell is single-threaded: the requestAnimationFrame callback, the   *)
(* keydown / keyup listeners and the dropdown / button callbacks each run  *)
(* to completion while holding GAME_STATE.borrow_mut(), so every handler   *)
(* is one atomic action.  What a handler does inside (each Game call it    *)
(* makes, each end_frame) is recorded, in order, in the log `calls`.       *)
(*                                                                         *)
(* f32 values (accumulator, dt, TIMESTEP) are integers counting units of   *)
(* 2^-31 second, rounded to a 24-bit significand after every operation as  *)
(* IEEE-754 binary32 round-to-nearest-even does.  Timestamps are whole     *)
(* milliseconds (a subset of the f64 values the host delivers).            *)
(***************************************************************************)
EXTENDS Integers, Sequences, FiniteSets, TLC

\* ---------------------------------------------------------------- bounds
\* Number of animation frames (ticks) explored.
MaxTicks == 3
\* Length of the collection all_games() returns.
NumGames == 2
\* Longest draw-command list handed to render_to_canvas on its own.
MaxCmds == 2

\* ------------------------------------------------------------ input data
\* The keys of the Key enum the model tracks.
Keys == {"Left"}
\* KeyboardEvent.code values the listeners receive: two codes of the same
\* key and one that map_code does not know.
Codes == {"ArrowLeft", "KeyA", "KeyQ"}
\* First timestamp the host delivers, in ms: at the time origin, or a second
\* after it.
FirstNows == {0, 1000}
\* Gaps between consecutive timestamps, in ms (0 or at least 4, see F32Of):
\* less than a step, a little more than a step, and a 2-second stall.
Deltas == {16, 17, 2000}
\* What the <select> element can hand to on_change: a value that parses as
\* usize n, or one that does not parse.
DropdownValues ==
    {[ok |-> TRUE, n |-> i] : i \in 0..NumGames} \cup {[ok |-> FALSE, n |-> 0]}

NoKey == "None"
NoGame == 0 - 1

\* ------------------------------------------------------- f32 arithmetic
\* Units of 2^-31 s per f32 unit-in-the-last-place at magnitude q.
Ulp(q) ==
    IF q < 16777216 THEN 1            \* below 2^-7 s
    ELSE IF q < 33554432 THEN 2       \* [2^-7, 2^-6)
    ELSE IF q < 67108864 THEN 4       \* [2^-6, 2^-5)
    ELSE IF q < 134217728 THEN 8      \* [2^-5, 2^-4)
    ELSE IF q < 268435456 THEN 16     \* [2^-4, 2^-3)
    ELSE IF q < 536870912 THEN 32     \* [2^-3, 2^-2)
    ELSE IF q < 1073741824 THEN 64    \* [2^-2, 2^-1)
    ELSE 128                          \* [2^-1, 1)

\* Round q + r/d (units of 2^-31 s, 0 <= r < d) to the nearest binary32
\* value, ties to even.
F32Round(q, r, d) ==
    LET u    == Ulp(q)
        low  == q - (q % u)
        twice == 2 * ((q % u) * d + r)
    IN  IF twice > u * d THEN low + u
        ELSE IF twice < u * d THEN low
        ELSE IF (low \div u) % 2 = 0 THEN low ELSE low + u

\* floor(n * 2^k / d) and the remainder, by k doublings (no overflow).
RECURSIVE Scale(_, _, _, _)
Scale(q, r, d, k) ==
    IF k = 0 THEN <<q, r>>
    ELSE Scale(2 * q + ((2 * r) \div d), (2 * r) % d, d, k - 1)

\* The binary32 value nearest to n/d, for 0 <= n/d < 1/2 with n/d = 0 or
\* n/d >= 2^-8 (below that a binary32 is finer than 2^-31).  For a gap in
\* whole ms the f64 quotient gap/1000.0 is never within 2^-53 of a binary32
\* rounding boundary, so rounding the exact quotient once gives what
\* `(... / 1000.0) as f32` gives.
F32Of(n, d) ==
    LET s == Scale(n \div d, n % d, d, 31)
    IN  F32Round(s[1], s[2], d)

F32Add(a, b) == F32Round(a + b, 0, 1)
F32Sub(a, b) == F32Round(a - b, 0, 1)
F32Min(a, b) == IF a < b THEN a ELSE b

\* const TIMESTEP: f32 = 1.0 / 60.0
TIMESTEP == F32Of(1, 60)

\* The literal 0.25 of `dt.min(0.25)`.
DtCap == F32Of(1, 4)

\* ((now - last_time) / 1000.0) as f32, then .min(0.25), for a gap of
\* delta >= 0 ms.  The conversion is monotone and 0.25 is a binary32, so a
\* gap of 250 ms or more yields exactly 0.25.
\* Mutant of DtMin: the cap is 0.5 s.
DtMin_cap_half(delta) ==
    IF delta * 2 >= 1000 THEN F32Of(1, 2) ELSE F32Of(delta, 1000)

DtMin(delta) ==
    IF delta * 4 >= 1000 THEN DtCap ELSE F32Min(F32Of(delta, 1000), DtCap)

\* DtMin tabulated over the gaps the model feeds in.
DtTable == [delta \in Deltas \cup FirstNows \cup {0} |-> DtMin(delta)]

CappedDt(delta) == DtTable[delta]

\* ---------------------------------------------------------------- state
VARIABLES
    keys,         \* WebInput.keys: partial map Key -> bool
    prev_keys,    \* WebInput.prev_keys
    games,        \* GameState.games: index -> state of that game
    selected,     \* GameState.selected
    rng,          \* GameState.rng
    accumulator,  \* GameState.accumulator (f32)
    last_time,    \* GameState.last_time (ms)
    draw_cmds,    \* GameState.draw_cmds
    handler,      \* the handler that ran last
    calls,        \* what that handler did, in order
    stepSaw,      \* per key, the is_down the latest update step read
    keyDown,      \* per key, whether the latest key event left it down
    downAtFrame,  \* keyDown as it was at the latest end_frame
    ticks,        \* number of ticks so far
    fonts,        \* GameState.fonts: the registered FontStyleIds
    canvas,       \* the CanvasRenderingContext2d and what was called on it
    rpos          \* render_to_canvas: index of the next command (0: idle)

vars == <<keys, prev_keys, games, selected, rng, accumulator, last_time,
          draw_cmds, handler, calls, stepSaw, keyDown, downAtFrame, ticks,
          fonts, canvas, rpos>>

GameIds == 0..(NumGames - 1)

\* ------------------------------------------------------------- WebInput
\* HashMap::get(&k).unwrap_or(&false)
Get(m, k) == IF k \in DOMAIN m THEN m[k] ELSE FALSE

\* HashMap::insert(key, down)
Insert(m, key, down) ==
    [k \in (DOMAIN m) \cup {key} |-> IF k = key THEN down ELSE m[k]]

set_key(m, key, down) == Insert(m, key, down)

\* Mutant of end_frame: the snapshot is emptied, not cloned.
end_frame_empty(ks) == <<>>

\* WebInput::end_frame: prev_keys = keys.clone()
end_frame(ks) == ks

map_code(code) ==
    CASE code \in {"ArrowLeft", "KeyA"} -> "Left"
      [] code \in {"ArrowRight", "KeyD"} -> "Right"
      [] code \in {"ArrowUp", "KeyW"} -> "Up"
      [] code \in {"ArrowDown", "KeyS"} -> "Down"
      [] code = "Space" -> "Space"
      [] code = "Enter" -> "Enter"
      [] code = "Escape" -> "Escape"
      [] code = "KeyZ" -> "Z"
      [] code = "KeyX" -> "X"
      [] code = "KeyC" -> "C"
      [] OTHER -> NoKey

\* InputState::key
key(ks, pks, k) ==
    LET is_down  == Get(ks, k)
        was_down == Get(pks, k)
    IN  [is_down   |-> is_down,
         went_down |-> is_down /\ ~was_down,
         went_up   |-> ~is_down /\ was_down]

\* Every Button a game can read through ctx.input at this moment.
Reads(ks, pks) == [k \in Keys |-> key(ks, pks, k)]

\* ---------------------------------------------------------------- games
\* A Game is opaque to the shell.  Its state here is "fresh" after reset and
\* "running" once updated; update and reset each draw once from ctx.rng,
\* whose state is one of two tokens.
RngNext(r) == IF r = "seed" THEN "drawn" ELSE "seed"

\* One thing a handler did: a Game call (with the dt and the Buttons the
\* call could read through ctx.input) or an end_frame.
Entry(op, g, dt, input, was) ==
    [op |-> op, game |-> g, dt |-> dt, input |-> input, was |-> was]

\* A DrawCmd.  `game` tells which game emitted it; glow is Stroke.glow in
\* tenths, npts the number of points of a polyline, text a string as a
\* sequence of characters, size the requested size_px.
DrawCmd(cmd, g, glow, npts, text, style, size) ==
    [cmd |-> cmd, game |-> g, glow |-> glow, npts |-> npts, text |-> text,
     style |-> style, size |-> size]

ClearCmd(g) == DrawCmd("Clear", g, 0, 0, <<>>, "DEFAULT", 0)
LineCmd(g, glow) == DrawCmd("Line", g, glow, 2, <<>>, "DEFAULT", 0)
PolylineCmd(g, glow, npts) == DrawCmd("Polyline", g, glow, npts, <<>>, "DEFAULT", 0)
TextCmd(g, text, style, size) == DrawCmd("Text", g, 0, 0, text, style, size)
PushTransformCmd(g) == DrawCmd("PushTransform", g, 0, 0, <<>>, "DEFAULT", 0)

\* The scene game g appends in render.
Scene(g) == <<ClearCmd(g), LineCmd(g, 0)>>

Handler(name, arg) == [name |-> name, arg |-> arg]

\* ------------------------------------------------------ canvas context
\* Lengths on the canvas are integers: glow in tenths, shadow blur in
\* hundredths of a pixel, text cursor in units of 1 / (10 * scale).
NoFont == "None"

\* `const GLOW_INTENSITY: f64 = 0.8`, in tenths.
GLOW_INTENSITY == 8

\* `0.5 // Default subtle glow for all lines`, in tenths.
DefaultGlow == 5

\* The literal of `apply_glow(ctx, color, 0.6)` in text rendering, in tenths.
TextGlow == 6

\* The literal of `cursor_x += glyph_scale * 0.6`, in tenths.
FallbackAdvance == 6

\* A context no call has touched yet: shadowBlur is 0.  ops lists the calls
\* of the command being drawn, each with the shadow blur it was made under;
\* font, cursor and layout are the locals of text rendering.
FreshCanvas ==
    [blur |-> 0, ops |-> <<>>, font |-> NoFont, cursor |-> 0, layout |-> <<>>]

CanvasCall(ctx, call, arg) ==
    [ctx EXCEPT !.ops = Append(@, [call |-> call, arg |-> arg,
                                   blur |-> ctx.blur])]

set_shadow_blur(ctx, b) ==
    [CanvasCall(ctx, "set_shadow_blur", b) EXCEPT !.blur = b]

apply_glow(ctx, glow) ==
    LET called == CanvasCall(ctx, "apply_glow", glow)
    IN  IF glow > 0 /\ GLOW_INTENSITY > 0
        THEN CanvasCall(set_shadow_blur(called,
                                        (80 + glow * 12) * GLOW_INTENSITY),
                        "set_shadow_color", glow)
        ELSE set_shadow_blur(called, 0)

clear_glow(ctx) == set_shadow_blur(ctx, 0)

\* Mutant of EffectiveGlow: the stroke's glow is passed on as it is.
EffectiveGlow_raw(glow) == glow

\* `if stroke.glow > 0.0 { stroke.glow } else { 0.5 }`
EffectiveGlow(glow) == IF glow > 0 THEN glow ELSE DefaultGlow

\* Mutant of draw_line_with_glow: the trailing clear_glow is missing.
draw_line_with_glow_keeps_glow(ctx, glow) ==
    CanvasCall(apply_glow(ctx, EffectiveGlow(glow)), "stroke", 2)

draw_line_with_glow(ctx, glow) ==
    clear_glow(CanvasCall(apply_glow(ctx, EffectiveGlow(glow)), "stroke", 2))

draw_polyline_with_glow(ctx, glow, npts) ==
    clear_glow(CanvasCall(apply_glow(ctx, EffectiveGlow(glow)), "stroke",
                          npts))

\* ------------------------------------------------------------ vector text
\* FontRegistry::get(style): the font registered under that very style.
RegistryGet(reg, style) == IF style \in reg THEN style ELSE NoFont

\* Option::or_else
OrElse(found, other) == IF found # NoFont THEN found ELSE other

\* Mutant of ResolveFont: the baseline style is tried before DEFAULT.
ResolveFont_baseline_first(reg, style) ==
    OrElse(OrElse(RegistryGet(reg, style), RegistryGet(reg, "ATARI")),
           RegistryGet(reg, "DEFAULT"))

\* `fonts.get(style).or_else(DEFAULT).or_else(ATARI)`
ResolveFont(reg, style) ==
    OrElse(OrElse(RegistryGet(reg, style), RegistryGet(reg, "DEFAULT")),
           RegistryGet(reg, "ATARI"))

\* The fonts: which characters have a glyph, how many paths it has and its
\* advance in tenths of the glyph scale.  No font has a glyph for "?"; a
\* blank has a glyph without paths.
has_glyph(font, ch) ==
    \/ ch = "A"
    \/ ch = " " /\ font = "ATARI"
    \/ ch = "B" /\ font # "DEFAULT"

glyph_paths(font, ch) ==
    IF ch = " " THEN 0
    ELSE IF ch = "A" THEN (IF font = "ATARI" THEN 2 ELSE 1)
    ELSE IF font = "MIDWAY" THEN 2 ELSE 1

advance(font, ch) ==
    IF font = "MIDWAY" THEN 10
    ELSE IF ch = "A" THEN 8
    ELSE IF ch = "B" THEN 7 ELSE 5

\* `for path in paths { ...; ctx.stroke(); }`
RECURSIVE StrokePaths(_, _)
StrokePaths(ctx, n) ==
    IF n = 0 THEN ctx ELSE StrokePaths(CanvasCall(ctx, "stroke", ctx.cursor), n - 1)

Laid(ctx, ch, before) ==
    Append(ctx.layout, [ch |-> ch, at |-> ctx.cursor,
                        drawn |-> Len(ctx.ops) - Len(before.ops)])

\* Mutant of LayoutChar: a character without a glyph leaves the cursor
\* where it is.
LayoutChar_missing_stays(ctx, font, ch, size) ==
    IF ~has_glyph(font, ch)
    THEN [ctx EXCEPT !.layout = Laid(ctx, ch, ctx)]
    ELSE LET drawn == StrokePaths(ctx, glyph_paths(font, ch))
         IN  [drawn EXCEPT !.cursor = @ + advance(font, ch) * size,
                           !.layout = Laid(drawn, ch, ctx)]

\* The body of `for ch in text.chars()`; glyph_scale is size / scale.
LayoutChar(ctx, font, ch, size) ==
    IF ~has_glyph(font, ch)
    THEN [ctx EXCEPT !.cursor = @ + FallbackAdvance * size,
                     !.layout = Laid(ctx, ch, ctx)]
    ELSE LET drawn == StrokePaths(ctx, glyph_paths(font, ch))
         IN  [drawn EXCEPT !.cursor = @ + advance(font, ch) * size,
                           !.layout = Laid(drawn, ch, ctx)]

RECURSIVE LayoutText(_, _, _, _, _)
LayoutText(ctx, font, text, size, i) ==
    IF i > Len(text) THEN ctx
    ELSE LayoutText(LayoutChar(ctx, font, text[i], size), font, text, size,
                    i + 1)

\* The text starts at pos.x, taken as the origin of the cursor.
render_vector_text_with_glow(ctx, reg, cmd) ==
    LET font == ResolveFont(reg, cmd.style)
    IN  IF font = NoFont THEN ctx
        ELSE clear_glow(LayoutText([apply_glow(ctx, TextGlow)
                                       EXCEPT !.font = font],
                                   font, cmd.text, cmd.size, 1))

\* ------------------------------------------------------- render_to_canvas
\* One pass of `for cmd in cmds`: the `match cmd`.
DrawCmdStep(before, cmd, reg) ==
    LET ctx == [before EXCEPT !.ops = <<>>, !.font = NoFont, !.cursor = 0,
                              !.layout = <<>>]
    IN  CASE cmd.cmd = "Clear" -> CanvasCall(clear_glow(ctx), "fill_rect", 0)
          [] cmd.cmd = "Line" -> draw_line_with_glow(ctx, cmd.glow)
          [] cmd.cmd = "Polyline" ->
                 IF cmd.npts < 2 THEN ctx
                 ELSE draw_polyline_with_glow(ctx, cmd.glow, cmd.npts)
          [] cmd.cmd = "Text" -> render_vector_text_with_glow(ctx, reg, cmd)
          [] OTHER -> ctx

\* `// Ensure glow is cleared at end`
RenderEnd(before) ==
    clear_glow([before EXCEPT !.ops = <<>>, !.font = NoFont, !.cursor = 0,
                              !.layout = <<>>])

RECURSIVE ForEachCmd(_, _, _, _)
ForEachCmd(ctx, cmds, reg, i) ==
    IF i > Len(cmds) THEN ctx
    ELSE ForEachCmd(DrawCmdStep(ctx, cmds[i], reg), cmds, reg, i + 1)

render_to_canvas(ctx, cmds, reg) == RenderEnd(ForEachCmd(ctx, cmds, reg, 1))

\* The styles of AtariMini, Cinematronics, Midway and VectorScanline.
create_font_registry == {"ATARI", "CINEMATRONICS", "MIDWAY", "VECTOR_SCANLINE"}

\* ------------------------------------------------------- GameState::new
NewSession ==
    /\ keys = <<>>
    /\ prev_keys = <<>>
    /\ games = [g \in GameIds |-> "fresh"]
    /\ selected = 0
    /\ rng = "seed"
    /\ accumulator = 0
    /\ last_time = 0
    /\ handler = Handler("new", 0)
    /\ calls = <<>>
    /\ stepSaw = [k \in Keys |-> FALSE]
    /\ keyDown = [k \in Keys |-> FALSE]
    /\ downAtFrame = [k \in Keys |-> FALSE]
    /\ ticks = 0

Init ==
    /\ NewSession
    /\ draw_cmds = <<>>
    /\ fonts = create_font_registry
    /\ canvas = FreshCanvas
    /\ rpos = 0

\* ------------------------------------------------------ GameState::tick
\* Mutant of SeedLastTime: last_time is never seeded.
SeedLastTime_never(lt, now) == lt

\* `if self.last_time == 0.0 { self.last_time = now; }`
SeedLastTime(lt, now) == IF lt = 0 THEN now ELSE lt

\* `self.accumulator += dt.min(0.25)`
Accumulate(acc, lt, now) == F32Add(acc, CappedDt(now - SeedLastTime(lt, now)))

\* Mutant of GameUpdate: every game of the collection is updated.
GameUpdate_all(st, dt) ==
    LET input == Reads(st.keys, st.prev)
    IN  [st EXCEPT
           !.games = [g \in DOMAIN st.games |-> "running"],
           !.rng   = RngNext(@),
           !.calls = Append(@, Entry("update", st.selected, dt, input, st.saw)),
           !.saw   = [k \in Keys |-> input[k].is_down]]

\* What game.update(&mut ctx, dt) does to the session.
GameUpdate(st, dt) ==
    LET input == Reads(st.keys, st.prev)
    IN  [st EXCEPT
           !.games = [@ EXCEPT ![st.selected] = "running"],
           !.rng   = RngNext(@),
           !.calls = Append(@, Entry("update", st.selected, dt, input, st.saw)),
           !.saw   = [k \in Keys |-> input[k].is_down]]

\* Mutant of UpdateStep: update gets the time still accumulated, not the
\* fixed step.
UpdateStep_variable_dt(st) ==
    LET upd == IF st.selected \in DOMAIN st.games
               THEN GameUpdate(st, st.acc) ELSE st
    IN  [upd EXCEPT !.acc = F32Sub(@, TIMESTEP)]

\* Mutant of UpdateStep: the snapshot is taken inside the loop, after each
\* update step.
UpdateStep_snapshots(st) ==
    LET upd == IF st.selected \in DOMAIN st.games
               THEN GameUpdate(st, TIMESTEP) ELSE st
    IN  [upd EXCEPT !.acc = F32Sub(@, TIMESTEP), !.prev = end_frame(st.keys)]

\* The body of `while self.accumulator >= TIMESTEP`.
UpdateStep(st) ==
    LET upd == IF st.selected \in DOMAIN st.games
               THEN GameUpdate(st, TIMESTEP) ELSE st
    IN  [upd EXCEPT !.acc = F32Sub(@, TIMESTEP)]

\* Mutant of UpdateLoop: an `if` where the code has `while`.
UpdateLoop_single(st) ==
    IF st.acc >= TIMESTEP THEN UpdateStep(st) ELSE st

RECURSIVE UpdateLoop(_)
UpdateLoop(st) ==
    IF st.acc >= TIMESTEP THEN UpdateLoop(UpdateStep(st)) ELSE st

\* What game.render(&mut ctx, &mut self.draw_cmds) does to the session.
GameRender(st) ==
    [st EXCEPT
       !.draw  = @ \o Scene(st.selected),
       !.calls = Append(@, Entry("render", st.selected, 0,
                                 Reads(st.keys, st.prev), st.saw))]

\* Mutant of RenderPass: a tick that ran no update step renders nothing.
RenderPass_only_after_update(st) ==
    LET cleared == [st EXCEPT !.draw = <<>>]
    IN  IF st.selected \in DOMAIN st.games /\ st.calls # <<>>
        THEN GameRender(cleared) ELSE cleared

\* Mutant of RenderPass: `self.draw_cmds.clear()` is missing.
RenderPass_no_clear(st) ==
    IF st.selected \in DOMAIN st.games THEN GameRender(st) ELSE st

\* `self.draw_cmds.clear()` and the render pass.
RenderPass(st) ==
    LET cleared == [st EXCEPT !.draw = <<>>]
    IN  IF st.selected \in DOMAIN st.games THEN GameRender(cleared) ELSE cleared

\* `self.input.end_frame()`, the last statement of tick.
EndOfTick(st) ==
    [st EXCEPT
       !.prev  = end_frame(st.keys),
       !.frame = keyDown,
       !.calls = Append(@, Entry("end_frame", NoGame, 0,
                                 Reads(st.keys, st.prev), st.saw))]

\* The session as tick sees it after `self.accumulator += ...`.
TickStart(now) ==
    [acc |-> Accumulate(accumulator, last_time, now),
     games |-> games, selected |-> selected, rng |-> rng,
     keys |-> keys, prev |-> prev_keys, draw |-> draw_cmds,
     calls |-> <<>>, saw |-> stepSaw, frame |-> downAtFrame]

TickResult(now) == EndOfTick(RenderPass(UpdateLoop(TickStart(now))))

Tick(now) ==
    /\ ticks < MaxTicks
    /\ LET st == TickResult(now)
       IN  /\ accumulator' = st.acc
           /\ games' = st.games
           /\ rng' = st.rng
           /\ prev_keys' = st.prev
           /\ draw_cmds' = st.draw
           /\ calls' = st.calls
           /\ stepSaw' = st.saw
           /\ downAtFrame' = st.frame
    /\ last_time' = now
    /\ handler' = Handler("tick", now)
    /\ ticks' = ticks + 1
    /\ UNCHANGED <<keys, selected, keyDown>>

\* The requestAnimationFrame callback: timestamps never decrease; the
\* commands of the tick are drawn at once.
AnimationFrame ==
    \E now \in (IF ticks = 0 THEN FirstNows
                ELSE {last_time + d : d \in Deltas}) :
        /\ Tick(now)
        /\ canvas' = render_to_canvas(canvas, draw_cmds', fonts)
        /\ UNCHANGED <<fonts, rpos>>

\* --------------------------------------------------- keydown / keyup
KeyEvent(code, down) ==
    /\ keys' = IF map_code(code) # NoKey
               THEN set_key(keys, map_code(code), down) ELSE keys
    /\ keyDown' = [k \in Keys |-> IF k = map_code(code) THEN down
                                   ELSE keyDown[k]]
    /\ handler' = Handler(IF down THEN "keydown" ELSE "keyup", 0)
    /\ calls' = <<>>
    /\ UNCHANGED <<prev_keys, games, selected, rng, accumulator, last_time,
                   draw_cmds, stepSaw, downAtFrame, ticks, fonts, canvas,
                   rpos>>

KeyDown == \E code \in Codes : KeyEvent(code, TRUE)

KeyUp == \E code \in Codes : KeyEvent(code, FALSE)

\* ----------------------------------------------- GameState::select_game
\* What game.reset(&mut ctx) does to the session.
GameReset(g) ==
    /\ games' = [games EXCEPT ![g] = "fresh"]
    /\ rng' = RngNext(rng)
    /\ calls' = <<Entry("reset", g, 0, Reads(keys, prev_keys), stepSaw)>>

\* Mutant of select_game: the `idx != self.selected` test is missing.
select_game_always_resets(idx) ==
    /\ IF idx < NumGames
       THEN /\ selected' = idx
            /\ GameReset(idx)
       ELSE /\ calls' = <<>>
            /\ UNCHANGED <<selected, games, rng>>
    /\ handler' = Handler("select_game", idx)
    /\ UNCHANGED <<keys, prev_keys, accumulator, last_time, draw_cmds,
                   stepSaw, keyDown, downAtFrame, ticks>>

\* Mutant of select_game: the game that was selected is reset as well.
select_game_resets_previous(idx) ==
    /\ IF idx < NumGames /\ idx # selected
       THEN /\ selected' = idx
            /\ games' = [games EXCEPT ![idx] = "fresh", ![selected] = "fresh"]
            /\ rng' = RngNext(rng)
            /\ calls' = <<Entry("reset", idx, 0, Reads(keys, prev_keys),
                                stepSaw)>>
       ELSE /\ calls' = <<>>
            /\ UNCHANGED <<selected, games, rng>>
    /\ handler' = Handler("select_game", idx)
    /\ UNCHANGED <<keys, prev_keys, accumulator, last_time, draw_cmds,
                   stepSaw, keyDown, downAtFrame, ticks>>

\* Mutant of select_game: the `idx < self.games.len()` test is missing.
select_game_no_range_check(idx) ==
    /\ IF idx # selected
       THEN /\ selected' = idx
            /\ IF idx \in GameIds
               THEN GameReset(idx)
               ELSE /\ calls' = <<>>
                    /\ UNCHANGED <<games, rng>>
       ELSE /\ calls' = <<>>
            /\ UNCHANGED <<selected, games, rng>>
    /\ handler' = Handler("select_game", idx)
    /\ UNCHANGED <<keys, prev_keys, accumulator, last_time, draw_cmds,
                   stepSaw, keyDown, downAtFrame, ticks>>

select_game(idx) ==
    /\ IF idx < NumGames /\ idx # selected
       THEN /\ selected' = idx
            /\ GameReset(idx)
       ELSE /\ calls' = <<>>
            /\ UNCHANGED <<selected, games, rng>>
    /\ handler' = Handler("select_game", idx)
    /\ UNCHANGED <<keys, prev_keys, accumulator, last_time, draw_cmds,
                   stepSaw, keyDown, downAtFrame, ticks>>

\* target.value().parse::<usize>().unwrap_or(0)
ParseIdx(v) == IF v.ok THEN v.n ELSE 0

OnChange ==
    \E v \in DropdownValues :
        /\ select_game(ParseIdx(v))
        /\ UNCHANGED <<fonts, canvas, rpos>>

\* --------------------------------------------- GameState::reset_current
reset_current ==
    /\ IF selected \in GameIds
       THEN GameReset(selected)
       ELSE /\ calls' = <<>>
            /\ UNCHANGED <<games, rng>>
    /\ handler' = Handler("reset_current", 0)
    /\ UNCHANGED <<keys, prev_keys, selected, accumulator, last_time,
                   draw_cmds, stepSaw, keyDown, downAtFrame, ticks, fonts,
                   canvas, rpos>>

OnReset == reset_current

\* ----------------------------------------------------------------- spec
Next == AnimationFrame \/ KeyDown \/ KeyUp \/ OnChange \/ OnReset

Spec == Init /\ [][Next]_vars

\* ------------------------------------------- render_to_canvas on its own
\* The command lists and registries render_to_canvas is run on.
CmdSet ==
    {ClearCmd(0), LineCmd(0, 0), LineCmd(0, 10), PolylineCmd(0, 0 - 3, 3),
     PolylineCmd(0, 10, 1), TextCmd(0, <<"A", "?", "B">>, "MIDWAY", 50),
     TextCmd(0, <<"?", " ", "A">>, "CINEMATRONICS", 100),
     PushTransformCmd(0)}

RECURSIVE CmdLists(_)
CmdLists(n) ==
    IF n = 0 THEN {<<>>}
    ELSE LET shorter == CmdLists(n - 1)
         IN  shorter \cup {Append(l, c) : l \in shorter, c \in CmdSet}

Registries == SUBSET {"DEFAULT", "ATARI", "MIDWAY"}

RenderInit ==
    /\ NewSession
    /\ draw_cmds \in CmdLists(MaxCmds)
    /\ fonts \in Registries
    /\ canvas = FreshCanvas
    /\ rpos = 1

RenderInputs ==
    <<keys, prev_keys, games, selected, rng, accumulator, last_time,
      draw_cmds, handler, calls, stepSaw, keyDown, downAtFrame, ticks, fonts>>

\* One pass of the loop over the commands.
RenderCmd ==
    /\ rpos \in 1..Len(draw_cmds)
    /\ canvas' = DrawCmdStep(canvas, draw_cmds[rpos], fonts)
    /\ rpos' = rpos + 1
    /\ UNCHANGED RenderInputs

\* The clear_glow after the loop, and the return.
RenderReturn ==
    /\ rpos = Len(draw_cmds) + 1
    /\ canvas' = RenderEnd(canvas)
    /\ rpos' = 0
    /\ UNCHANGED RenderInputs

RenderNext == RenderCmd \/ RenderReturn

SpecRender == RenderInit /\ [][RenderNext]_vars

\* ---------------------------------------------------------------- claims
\* Positions in the latest handler's log of the entries of one kind.
Ops(op) == {i \in DOMAIN calls : calls[i].op = op}

Count(op) == Cardinality(Ops(op))

\* The state right after a tick returned.
AfterTick == handler.name = "tick"

\* 0.25 s / (1/60 s): the number of whole steps in the cap.
StepsInCap == 60 \div 4

\* C1: a key(k) read reports went_down exactly for the keys that were up at
\* the previous end_frame and are down now, went_up exactly for the keys
\* that were down then and are up now, and neither for any other key (a key
\* no event ever set counts as up).
C1_EdgesAreFlipsSinceEndFrame ==
    \A k \in Keys :
        LET b == key(keys, prev_keys, k)
        IN  /\ b.went_down = (keyDown[k] /\ ~downAtFrame[k])
            /\ b.went_up = (~keyDown[k] /\ downAtFrame[k])
            /\ b.is_down = keyDown[k]

\* C1 witness: a key down at the latest end_frame was released since.
C1_Witness ==
    /\ ticks >= 1
    /\ handler.name = "keyup"
    /\ \E k \in Keys : downAtFrame[k] /\ key(keys, prev_keys, k).went_up

\* C2: end_frame is never executed by a tick whose while-loop ran zero
\* update steps; it runs only in a tick with at least one update step.
C2_NoEndFrameAfterZeroSteps ==
    AfterTick => (Count("end_frame") > 0 => Count("update") > 0)

\* C3: no key edge is lost: an update step that reads a key in another
\* position than the previous update step read (up before any step) reads
\* went_down, for a press, or went_up, for a release.
C3_NoEdgeLost ==
    AfterTick =>
        \A i \in Ops("update") : \A k \in Keys :
            /\ (calls[i].input[k].is_down /\ ~calls[i].was[k])
                   => calls[i].input[k].went_down
            /\ (~calls[i].input[k].is_down /\ calls[i].was[k])
                   => calls[i].input[k].went_up

\* C4: the snapshot is replaced once per update step that ran: a tick makes
\* as many end_frame calls as update steps, and at most one update step of a
\* tick reads went_down for a key.
C4_SnapshotOncePerStep ==
    AfterTick =>
        /\ Count("end_frame") = Count("update")
        /\ \A k \in Keys :
               Cardinality({i \in Ops("update") :
                               calls[i].input[k].went_down}) <= 1

\* C5: the first tick of a session sets last_time to now and runs zero
\* update steps, leaving the accumulator below TIMESTEP.
C5_FirstTickSeeds ==
    (AfterTick /\ ticks = 1) =>
        /\ last_time = handler.arg
        /\ Count("update") = 0
        /\ accumulator < TIMESTEP

\* C5 witness: the first tick came with a timestamp a second after the
\* time origin.
C5_Witness == AfterTick /\ ticks = 1 /\ last_time = 1000

\* C6: a tick runs at most cap / STEP = 15 update steps, whatever the gap
\* and whatever the accumulator carried in.
C6_StepsAtMostCap == AfterTick => Count("update") <= StepsInCap

\* C6 witness: a tick after a 2-second stall ran the full 15 steps and
\* leaves more than half a step, which only a carried-in leftover gives.
C6_Witness ==
    /\ AfterTick
    /\ Count("update") = StepsInCap
    /\ 2 * accumulator > TIMESTEP

\* The number of iterations `while acc >= TIMESTEP { acc -= TIMESTEP }` makes
\* from acc, and the value it leaves.
RECURSIVE DrainSteps(_)
DrainSteps(acc) ==
    IF acc >= TIMESTEP THEN 1 + DrainSteps(F32Sub(acc, TIMESTEP)) ELSE 0

RECURSIVE DrainLeft(_)
DrainLeft(acc) ==
    IF acc >= TIMESTEP THEN DrainLeft(F32Sub(acc, TIMESTEP)) ELSE acc

\* C7: the clock is deterministic: the number of update steps of a tick and
\* the clock state it leaves are a function of the clock state before and
\* the timestamp alone (whatever keys are down and whichever game is
\* selected), no other handler touches the clock state, and every update
\* call gets dt = TIMESTEP.
C7_ClockDeterministic ==
    [][/\ handler'.name = "tick" =>
            LET start == Accumulate(accumulator, last_time, handler'.arg)
                steps == {i \in DOMAIN calls' : calls'[i].op = "update"}
            IN  /\ Cardinality(steps) = DrainSteps(start)
                /\ accumulator' = DrainLeft(start)
                /\ last_time' = handler'.arg
                /\ \A i \in steps : calls'[i].dt = TIMESTEP
       /\ handler'.name # "tick" => UNCHANGED <<accumulator, last_time>>
      ]_vars

\* C7 witness: a tick that ran several update steps, each with
\* dt = TIMESTEP, in a session with a key held down and the second game
\* selected.
C7_Witness ==
    /\ AfterTick
    /\ Count("update") >= 2
    /\ \A i \in Ops("update") : calls[i].dt = TIMESTEP
    /\ selected = 1
    /\ \E k \in Keys : keyDown[k]

\* C8: every tick makes exactly one render call, after all of its update
\* steps, however many update steps ran.
C8_OneRenderAfterUpdates ==
    AfterTick =>
        /\ Count("render") = 1
        /\ \A i \in Ops("update") : \A j \in Ops("render") : i < j

\* C8 witness: a tick later than the first ran zero update steps and
\* rendered once.
C8_Witness ==
    /\ AfterTick
    /\ ticks >= 2
    /\ Count("update") = 0
    /\ Count("render") = 1

\* The session state select_game must leave alone when it is a no-op.
Session ==
    <<selected, games, rng, keys, prev_keys, accumulator, last_time,
      draw_cmds>>

\* C9: select_game(idx) with idx the current selection, or with
\* idx >= number of games, calls reset on no game and leaves the session
\* state (selection, games, RNG, input, clock, draw list) unchanged.
C9_SelectNoOp ==
    [][(/\ handler'.name = "select_game"
        /\ (handler'.arg = selected \/ handler'.arg >= NumGames))
          => (calls' = <<>> /\ UNCHANGED Session)
      ]_vars

\* C9 witness: select_game ran with the index of the selected game, which
\* had been updated, and it is still running.
C9_Witness ==
    /\ handler.name = "select_game"
    /\ handler.arg = selected
    /\ calls = <<>>
    /\ games[selected] = "running"

\* C10: select_game(idx) with an in-range idx other than the selection
\* selects idx and calls reset exactly once, on game idx; every other game
\* keeps its state.
C10_SelectResetsOnlyNew ==
    [][(/\ handler'.name = "select_game"
        /\ handler'.arg < NumGames
        /\ handler'.arg # selected)
          => /\ selected' = handler'.arg
             /\ Len(calls') = 1
             /\ calls'[1].op = "reset"
             /\ calls'[1].game = handler'.arg
             /\ \A g \in GameIds \ {handler'.arg} : games'[g] = games[g]
      ]_vars

\* C10 witness: select_game switched games with one reset call, and the
\* game left behind is still running.
C10_Witness ==
    /\ handler.name = "select_game"
    /\ Len(calls) = 1
    /\ calls[1].op = "reset"
    /\ calls[1].game = selected
    /\ \E g \in GameIds \ {selected} : games[g] = "running"

\* The Button a read of key k gives when the key's position is keyDown[k]
\* and was downAtFrame[k] at the latest end_frame.
EdgeSince(k) ==
    [is_down   |-> keyDown[k],
     went_down |-> keyDown[k] /\ ~downAtFrame[k],
     went_up   |-> ~keyDown[k] /\ downAtFrame[k]]

\* C15: key callbacks interleaved with ticks give well-defined edges: a key
\* callback changes the current key map only, never the snapshot; every
\* read a tick's update steps and render pass make returns the same Button;
\* and that Button is the edge relative to the snapshot of the tick before,
\* so an input that arrived after that snapshot is an edge in this tick.
C15_EdgesWellDefined ==
    [][/\ handler'.name \in {"keydown", "keyup"} => prev_keys' = prev_keys
       /\ handler'.name = "tick" =>
             \A i \in DOMAIN calls' :
                 calls'[i].op \in {"update", "render"} =>
                     \A k \in Keys : calls'[i].input[k] = EdgeSince(k)
      ]_vars

\* C15 witness: a tick later than the first ran several update steps, and
\* each of them and the render pass read went_down for a key pressed after
\* the snapshot of the tick before.
C15_Witness ==
    /\ AfterTick
    /\ ticks >= 2
    /\ Count("update") >= 2
    /\ \E k \in Keys :
          \A i \in Ops("update") \cup Ops("render") :
              calls[i].input[k].went_down

\* C16: on every tick after the first the time added to the accumulator is
\* min(now - timestamp of the previous tick, 0.25 s): last_time is treated
\* as unseeded on the first tick only.
C16_SeededAfterFirstTick ==
    [][(handler'.name = "tick" /\ ticks >= 1) =>
          LET start == F32Add(accumulator, CappedDt(handler'.arg - last_time))
          IN  /\ accumulator' = DrainLeft(start)
              /\ Cardinality({i \in DOMAIN calls' : calls'[i].op = "update"})
                     = DrainSteps(start)
      ]_vars

\* C17: after every tick draw_cmds is exactly what the selected game's
\* render appended in that tick, with nothing carried over from an earlier
\* tick or from another game.
C17_NoCarryOver == AfterTick => draw_cmds = Scene(selected)

\* C17 witness: a tick later than the first left the scene of the second
\* game, selected since the session started with the first.
C17_Witness ==
    /\ AfterTick
    /\ ticks >= 2
    /\ selected = 1
    /\ draw_cmds = Scene(1)

\* C18: after every tick 0 <= accumulator < TIMESTEP.
C18_LeftoverBelowStep ==
    AfterTick => (accumulator >= 0 /\ accumulator < TIMESTEP)

\* C18 witness: a tick ran update steps and left a positive remainder.
C18_Witness ==
    /\ AfterTick
    /\ Count("update") >= 1
    /\ accumulator > 0
    /\ accumulator < TIMESTEP

\* C19: the selected index is always a valid index of the game collection.
C19_SelectedInRange == selected \in GameIds

\* C19 witness: select_game ran with an index past the end of the
\* collection and the selection is a valid index.
C19_Witness ==
    /\ handler.name = "select_game"
    /\ handler.arg >= NumGames
    /\ selected \in GameIds

\* C20: only the active game is driven: every update and render call of a
\* tick and the reset call of reset_current go to the selected game, and
\* the state of every other game is unchanged by a tick or reset_current.
C20_OnlyActiveGameDriven ==
    [][handler'.name \in {"tick", "reset_current"} =>
          /\ \A i \in DOMAIN calls' :
                 calls'[i].op \in {"update", "render", "reset"} =>
                     calls'[i].game = selected
          /\ \A g \in GameIds \ {selected} : games'[g] = games[g]
          /\ handler'.name = "reset_current" =>
                 (Len(calls') = 1 /\ calls'[1].op = "reset")
      ]_vars

\* C20 witness: a tick updated the selected game while another game is
\* still fresh.
C20_Witness ==
    /\ AfterTick
    /\ Count("update") >= 1
    /\ games[selected] = "running"
    /\ \E g \in GameIds \ {selected} : games[g] = "fresh"


\* ------------------------------------------------ claims on the renderer
\* The command the latest pass of the loop drew.
Drew(kinds) == rpos >= 2 /\ draw_cmds[rpos - 1].cmd \in kinds

LastCmd == draw_cmds[rpos - 1]

CanvasOps(call) == {i \in DOMAIN canvas.ops : canvas.ops[i].call = call}

\* C11: the shadow blur is zero after every command render_to_canvas has
\* drawn and when it returns, and a Clear fills under a zero blur.
C11_GlowNeverLeaks ==
    /\ canvas.blur = 0
    /\ \A i \in CanvasOps("fill_rect") : canvas.ops[i].blur = 0

C11_Witness ==
    /\ Drew({"Line"})
    /\ \E i \in CanvasOps("stroke") : canvas.ops[i].blur > 0
    /\ canvas.blur = 0

\* C12 as stated: line, polyline and text all pass apply_glow their own
\* glow if it is greater than 0 and 0.5 otherwise (a text has no glow of its
\* own).
C12_OwnGlowOrDefault ==
    Drew({"Line", "Polyline", "Text"}) =>
        \A i \in CanvasOps("apply_glow") :
            canvas.ops[i].arg = IF LastCmd.glow > 0 THEN LastCmd.glow
                                ELSE DefaultGlow

\* C12 amended: a line or a polyline passes apply_glow its own glow if it is
\* greater than 0 and 0.5 otherwise; a text passes the fixed 0.6.
C12_StrokeGlowOrDefault ==
    /\ Drew({"Line", "Polyline"}) =>
           \A i \in CanvasOps("apply_glow") :
               canvas.ops[i].arg = IF LastCmd.glow > 0 THEN LastCmd.glow
                                   ELSE DefaultGlow
    /\ Drew({"Text"}) =>
           \A i \in CanvasOps("apply_glow") : canvas.ops[i].arg = TextGlow

C12_Witness ==
    /\ Drew({"Polyline"})
    /\ LastCmd.glow <= 0
    /\ \E i \in CanvasOps("apply_glow") : canvas.ops[i].arg = DefaultGlow

\* The styles a text may be drawn in, in the order of preference.
Preferred(style) == <<style, "DEFAULT", "ATARI">>

\* C13: a text is drawn in the first registered style among the requested
\* one, DEFAULT and ATARI; when none is registered the text makes no call on
\* the canvas and leaves the glow alone, and the loop goes on.
C13_FontFallback ==
    Drew({"Text"}) =>
        LET pref == Preferred(LastCmd.style)
            hits == {i \in 1..3 : pref[i] \in fonts}
        IN  IF hits = {}
            THEN /\ canvas.font = NoFont
                 /\ canvas.ops = <<>>
                 /\ canvas.blur = 0
                 /\ ENABLED RenderNext
            ELSE \E i \in hits : /\ \A j \in hits : i <= j
                                 /\ canvas.font = pref[i]

C13_Witness ==
    /\ rpos >= 3
    /\ draw_cmds[rpos - 2].cmd = "Text"
    /\ \A i \in 1..3 : Preferred(draw_cmds[rpos - 2].style)[i] \notin fonts
    /\ Drew({"Line"})
    /\ CanvasOps("stroke") # {}

\* Where the cursor is once the first n characters are laid out.
CursorAfter(n) ==
    IF n < Len(canvas.layout) THEN canvas.layout[n + 1].at ELSE canvas.cursor

\* C14: laying out a text, a character without a glyph makes no stroke and
\* moves the cursor by 0.6 times the glyph scale, a character with a glyph
\* moves it by the font's advance times the glyph scale, and every
\* character of the string is laid out.
C14_TextLayout ==
    (Drew({"Text"}) /\ canvas.font # NoFont) =>
        /\ Len(canvas.layout) = Len(LastCmd.text)
        /\ \A n \in DOMAIN canvas.layout :
               LET ch == LastCmd.text[n]
                   moved == CursorAfter(n) - canvas.layout[n].at
               IN  /\ canvas.layout[n].ch = ch
                   /\ IF has_glyph(canvas.font, ch)
                      THEN moved = advance(canvas.font, ch) * LastCmd.size
                      ELSE /\ canvas.layout[n].drawn = 0
                           /\ moved = FallbackAdvance * LastCmd.size

C14_Witness ==
    /\ Drew({"Text"})
    /\ canvas.font # NoFont
    /\ \E n \in DOMAIN canvas.layout :
           /\ n < Len(canvas.layout)
           /\ ~has_glyph(canvas.font, canvas.layout[n].ch)
           /\ canvas.layout[n].drawn = 0
           /\ canvas.layout[n + 1].at = canvas.layout[n].at
                                           + FallbackAdvance * LastCmd.size
           /\ canvas.layout[n + 1].drawn > 0

====
